---- MODULE Spec2Model ----
(***************************************************************************)
(* A model of threeML/analysis_results.py (storage and reconstruction of   *)
(* fit results) and of the part of threeML/io/fits_file.py it writes       *)
(* through.                                                                *)
(*                                                                         *)
(* Texts are sequences of one-character strings.  Python's None is the     *)
(* empty tuple where a value may be absent (Some(v) is <<v>>).  A numpy    *)
(* array is a record tagged with its number of dimensions.                 *)
(***************************************************************************)
EXTENDS Integers, Sequences, FiniteSets, TLC

VARIABLES
    pc,        \* position of the running script
    text,      \* codec: the text given to _escape_yaml_for_fits
    escaped,   \* codec: the value returned by _escape_yaml_for_fits
    restored,  \* codec: the value returned by _escape_back_yaml_from_fits
    args,      \* the arguments of the last constructor call (None: no call)
    drawn,     \* the matrices the last call got from the random generator
    res,       \* the object the script holds (a result, a set of results, None)
    written,   \* history: what the object was when it was written to the file
    file,      \* the container on disk: the extensions after the primary one
    ret,       \* outcome of the last call: [kind |-> "ok"] or an exception
    warned,    \* the last call emitted the reliability warning
    out,       \* the value the last query of a result returned (None: no query)
    heap       \* the model objects alive and who refers to which (<<>>: unused)

vars ==
    <<pc, text, escaped, restored, args, drawn, res, written, file, ret, warned,
      out, heap>>

(***************************************************************************)
(* Bounds                                                                  *)
(***************************************************************************)
MaxPieces == 3

\* largest number of free parameters of a model
MaxK == 2

\* stands for the default n_samples of MLEResults (5000 in the source)
NSamples == 2

\* largest number of datasets with a statistic value
MaxStats == 2

\* largest number of ANALYSIS_RESULTS blocks of a container found on disk
MaxBlocks == 2

\* largest number of records of a Result Set
MaxRecords == 2

\* a number of samples large enough for one sample to be less than 1%
ManySamples == 200

\* largest number of columns given to FITSExtension
MaxColumns == 2

(***************************************************************************)
(* Python values                                                           *)
(***************************************************************************)
None == <<>>

Some(v) == <<v>>

Ok == [kind |-> "ok"]

Raise(exc) == [kind |-> "error", exc |-> exc]

NoObject == [class |-> "NoneType"]

(***************************************************************************)
(* Escaping codec                                                          *)
(***************************************************************************)
NEWLINE_TOKEN == <<"_", "N", "E", "W", "L", "I", "N", "E", "_">>

QUOTE1_TOKEN == <<"_", "Q", "U", "O", "T", "E", "1", "_">>

QUOTE2_TOKEN == <<"_", "Q", "U", "O", "T", "E", "2", "_">>

PARO_TOKEN == <<"_", "P", "A", "R", "O", "_">>

PARC_TOKEN == <<"_", "P", "A", "R", "C", "_">>

\* _subs: (special character, placeholder) in the order of the tuple
_subs ==
    << <<(<<"\n">>), NEWLINE_TOKEN>>,
       <<(<<"'">>),  QUOTE1_TOKEN>>,
       <<(<<"\"">>), QUOTE2_TOKEN>>,
       <<(<<"{">>),  PARO_TOKEN>>,
       <<(<<"}">>),  PARC_TOKEN>> >>

\* the positions at which old occurs in s
Occurrences(s, old) ==
    {i \in 1..(Len(s) - Len(old) + 1) : SubSeq(s, i, i + Len(old) - 1) = old}

MinOf(S) == CHOOSE i \in S : \A j \in S : i <= j

\* str.replace(old, new): leftmost, non-overlapping occurrences, old # ""
RECURSIVE StrReplace(_, _, _)
RECURSIVE ReplaceAt(_, _, _, _)
ReplaceAt(s, old, new, i) ==
    SubSeq(s, 1, i - 1) \o new
    \o StrReplace(SubSeq(s, i + Len(old), Len(s)), old, new)

ReplaceFirst(s, old, new, found) ==
    IF found = {} THEN s ELSE ReplaceAt(s, old, new, MinOf(found))

StrReplace(s, old, new) == ReplaceFirst(s, old, new, Occurrences(s, old))

\* the loop "for sub in _subs" of both functions, from entry i on
RECURSIVE SubsLoop(_, _, _, _)
SubsLoop(s, i, from, to) ==
    IF i > Len(_subs) THEN s
    ELSE SubsLoop(StrReplace(s, _subs[i][from], _subs[i][to]), i + 1, from, to)

_escape_yaml_for_fits(yaml_code) == SubsLoop(yaml_code, 1, 1, 2)

_escape_back_yaml_from_fits(yaml_code) == SubsLoop(yaml_code, 1, 2, 1)

Contains(s, sub) == Occurrences(s, sub) # {}

HasPlaceholder(s) == \E i \in 1..Len(_subs) : Contains(s, _subs[i][2])

\* pieces the codec's inputs are built from: the five special characters,
\* ordinary characters, and proper prefixes and suffixes of placeholders
Pieces ==
    { <<"\n">>, <<"'">>, <<"\"">>, <<"{">>, <<"}">>, <<"a">>, <<"_">>,
      <<"_", "N", "E", "W", "L", "I", "N", "E">>,
      <<"N", "E", "W", "L", "I", "N", "E", "_">>,
      <<"_", "P", "A", "R", "O">>,
      <<"P", "A", "R", "C", "_">> }

RECURSIVE TextsOf(_)
TextsOf(n) ==
    IF n = 0 THEN {<<>>}
    ELSE TextsOf(n - 1) \cup {t \o p : t \in TextsOf(n - 1), p \in Pieces}

Texts == TextsOf(MaxPieces)

(***************************************************************************)
(* numpy arrays: a 0-dimensional value, a vector, a matrix (rows, columns) *)
(***************************************************************************)
Scalar(v) == [nd |-> 0, v |-> v]

Arr1(d) == [nd |-> 1, d |-> d]

Arr2(rows, nc) == [nd |-> 2, d |-> rows, nc |-> nc]

Shape(a) ==
    CASE a.nd = 0 -> <<>>
      [] a.nd = 1 -> <<Len(a.d)>>
      [] OTHER    -> <<Len(a.d), a.nc>>

\* ndarray.T: rows and columns exchanged; a vector or a scalar is unchanged
Transpose(a) ==
    IF a.nd = 2
    THEN Arr2([j \in 1..a.nc |-> [i \in 1..Len(a.d) |-> a.d[i][j]]], Len(a.d))
    ELSE a

Zeros1(n) == Arr1([i \in 1..n |-> 0])

Zeros2(r, c) == Arr2([i \in 1..r |-> [j \in 1..c |-> 0]], c)

IsFinite(x) == x \in Int

AllFinite(a) ==
    CASE a.nd = 0 -> IsFinite(a.v)
      [] a.nd = 1 -> \A i \in 1..Len(a.d) : IsFinite(a.d[i])
      [] OTHER    -> \A i \in 1..Len(a.d) : \A j \in 1..a.nc : IsFinite(a.d[i][j])

(***************************************************************************)
(* The model (astromodels): the ordered mapping of its free parameters,    *)
(* each with a path, a value and optional bounds, and its serialization.   *)
(***************************************************************************)
ParNames == <<"a", "b", "c", "d", "e">>

Digits == <<"0", "1", "2", "3", "4", "5", "6", "7", "8", "9">>

ParKinds == {"free", "lo", "hi"}

Par(i, kind) ==
    [path      |-> ParNames[i],
     value     |-> CASE kind = "lo" -> 2 [] kind = "hi" -> 1 [] OTHER -> 1 + (i % 2),
     min_value |-> IF kind = "lo" THEN Some(2) ELSE None,
     max_value |-> IF kind = "hi" THEN Some(1) ELSE None]

Variants == {"free", "lo", "lohi"}

Model(k, variant) ==
    [i \in 1..k |->
        Par(i, CASE variant = "free" -> "free"
                 [] variant = "lo"   -> "lo"
                 [] OTHER            -> IF i % 2 = 1 THEN "lo" ELSE "hi")]

ModelsOf(k) == {Model(k, v) : v \in Variants}

AllModels == UNION {ModelsOf(k) : k \in 1..MaxK}

\* optimized_model.free_parameters
free_parameters(model) == model

\* astromodels.clone_model
clone_model(model) == model

OptChar(o) == IF o = None THEN "~" ELSE Digits[o[1] + 1]

\* one line per parameter: path:{'value',"min max"}
DumpPar(p) ==
    <<p.path, ":", "{", "'", Digits[p.value + 1], "'", ",",
      "\"", OptChar(p.min_value), " ", OptChar(p.max_value), "\"", "}", "\n">>

RECURSIVE Concat(_)
Concat(ss) == IF ss = <<>> THEN <<>> ELSE Head(ss) \o Concat(Tail(ss))

\* my_yaml.dump(optimized_model.to_dict_with_types())
my_yaml_dump(model) == Concat([i \in 1..Len(model) |-> DumpPar(model[i])])

\* ModelParser(model_dict=my_yaml.load(text)).get_model(): the models whose
\* serialization is the text (none: the text cannot be parsed)
ModelParser(serialized) == {m \in AllModels : my_yaml_dump(m) = serialized}

\* the header text of each model, as ANALYSIS_RESULTS.__init__ computes it
\* (tabulated once: it depends on the model alone)
HeaderText == [m \in AllModels |-> _escape_yaml_for_fits(my_yaml_dump(m))]

\* header texts that are no serialization of a model
ForeignTexts == {<<"a", ":", "_", "P", "A", "R", "O", "_">>}

\* the model _load_one_results gets from each header text (tabulated once)
ModelOfText ==
    [t \in {HeaderText[m] : m \in AllModels} \cup ForeignTexts |->
        ModelParser(_escape_back_yaml_from_fits(t))]

(***************************************************************************)
(* Statistic values: an ordered dictionary, dataset name -> value          *)
(***************************************************************************)
DataNames == <<"d1", "d2", "d3", "d4">>

StatsOf(m) == [i \in 1..m |-> [name |-> DataNames[i], value |-> 10 + i]]

StatInputs == {StatsOf(0), StatsOf(MaxStats)}

\* d[name] = value on an ordered dictionary
DictSet(d, name, value) ==
    IF \E i \in 1..Len(d) : d[i].name = name
    THEN [i \in 1..Len(d) |->
            IF d[i].name = name THEN [name |-> name, value |-> value] ELSE d[i]]
    ELSE Append(d, [name |-> name, value |-> value])

AsMapping(d) == {<<d[i].name, d[i].value>> : i \in 1..Len(d)}

(***************************************************************************)
(* Result records                                                          *)
(***************************************************************************)
\* _AnalysisResults.__init__
AnalysisResultsInit(optimized_model, samples, statistic_values, analysis_type) ==
    LET n_free == Len(free_parameters(optimized_model)) IN
    IF samples.nd < 2 THEN Raise("IndexError")
    ELSE IF Shape(samples)[2] # n_free THEN Raise("AssertionError")
    ELSE [kind |-> "ok",
          val  |-> [_n_free_parameters        |-> n_free,
                    _optimized_model          |-> clone_model(optimized_model),
                    _samples_transposed       |-> Transpose(samples),
                    _optimal_statistic_values |-> statistic_values,
                    _values |-> [i \in 1..n_free |-> optimized_model[i].value],
                    _analysis_type            |-> analysis_type]]

\* BayesianResults.__init__
BayesianResultsInit(optimized_model, samples, posterior_values) ==
    LET base == AnalysisResultsInit(optimized_model, samples, posterior_values,
                                    "Bayesian") IN
    IF base.kind = "error" THEN base
    ELSE [kind |-> "ok", val |-> [class |-> "BayesianResults"] @@ base.val]

\* a plausible slip: a sample equal to the upper bound counts as outside
AboveHiOrAt(x, hi) == hi # None /\ x >= hi[1]

\* sample > hi_bounds / sample < low_bounds, a missing bound being +-infinity
AboveHi(x, hi) == hi # None /\ x > hi[1]

\* a plausible slip: a sample equal to the lower bound counts as outside
BelowLowOrAt(x, low) == low # None /\ x <= low[1]

BelowLow(x, low) == low # None /\ x < low[1]

\* the body of the rejection loop: the sample stays unless it breaks a bound
ToBeKept(sample, model) ==
    ~ \/ \E i \in 1..Len(sample) : AboveHi(sample[i], model[i].max_value)
      \/ \E i \in 1..Len(sample) : BelowLow(sample[i], model[i].min_value)

\* samples[to_be_kept_mask, :]
KeptSamples(samples, model) ==
    Arr2(SelectSeq(samples.d, LAMBDA row : ToBeKept(row, model)), samples.nc)

\* a plausible slip: any removed sample counts as too many
MustWarnAny(n_removed, n_drawn) == n_removed > 0

\* n_removed_samples > samples.shape[0] / 100.0
MustWarn(n_removed, n_drawn) == n_removed * 100 > n_drawn

\* a plausible slip: anything that is not a matrix counts as "no covariance"
HasCovarianceMatrix(covariance_matrix) == covariance_matrix.nd = 2

\* covariance_matrix.shape != ()
HasCovariance(covariance_matrix) == Shape(covariance_matrix) # <<>>

\* MLEResults.__init__; rnd is what np.random.multivariate_normal returns
MLEResultsInit(optimized_model, covariance_matrix, likelihood_values, n_samples, rnd) ==
    LET values   == [i \in 1..Len(optimized_model) |-> optimized_model[i].value]
        expected == <<Len(values), Len(values)>>
        given    == HasCovariance(covariance_matrix)
    IN
    IF given /\ Shape(covariance_matrix) # expected THEN Raise("AssertionError")
    ELSE IF given /\ ~AllFinite(covariance_matrix) THEN Raise("AssertionError")
    ELSE
      LET samples == IF given THEN rnd
                     ELSE Arr2([r \in 1..n_samples |-> values], Len(values))
          cov     == IF given THEN covariance_matrix
                     ELSE Zeros2(Len(values), Len(values))
          kept    == KeptSamples(samples, optimized_model)
          base    == AnalysisResultsInit(optimized_model, kept, likelihood_values, "MLE")
      IN
      IF base.kind = "error" THEN base
      ELSE [kind    |-> "ok",
            val     |-> [class |-> "MLEResults", _covariance_matrix |-> cov] @@ base.val,
            sampled |-> given,
            all     |-> samples,
            warn    |-> MustWarn(Len(samples.d) - Len(kept.d), Len(samples.d))]

(***************************************************************************)
(* Queries of a result record                                              *)
(***************************************************************************)
\* num / math.sqrt(under), kept as the pair of its operands
Quotient(num, under) == [num |-> num, sqrt_of |-> under]

\* np.nan: the pair that no quotient under a positive product equals
NaN == [num |-> 0, sqrt_of |-> 0]

\* if variance_i * variance_j > 0
PositiveProduct(variance_i, variance_j) == variance_i * variance_j > 0

\* _AnalysisResults._get_correlation_matrix
_get_correlation_matrix(self, covariance) ==
    LET n == self._n_free_parameters IN
    [kind |-> "ok",
     val  |-> Arr2([i \in 1..n |-> [j \in 1..n |->
                      IF PositiveProduct(covariance.d[i][i], covariance.d[j][j])
                      THEN Quotient(covariance.d[i][j],
                                    covariance.d[i][i] * covariance.d[j][j])
                      ELSE NaN]], n)]

\* MLEResults.get_correlation_matrix
get_correlation_matrix(self) == _get_correlation_matrix(self, self._covariance_matrix)

\* a plausible slip: the model's keys counted from the other end
KeyIndexFromEnd(keys, param_path) ==
    CHOOSE i \in 1..Len(keys) : keys[Len(keys) + 1 - i] = param_path

\* self._free_parameters.keys().index(param_path)
KeyIndex(keys, param_path) ==
    CHOOSE i \in 1..Len(keys) : keys[i] = param_path /\ \A j \in 1..(i - 1) : keys[j] # param_path

\* RandomVariates(these_samples, value=this_value)
RandomVariates(samples, value) == [samples |-> samples, value |-> value]

\* _AnalysisResults.get_variates
get_variates(self, param_path) ==
    LET keys == [i \in 1..Len(self._optimized_model) |-> self._optimized_model[i].path] IN
    IF ~ \E i \in 1..Len(keys) : keys[i] = param_path THEN Raise("AssertionError")
    ELSE LET param_index == KeyIndex(keys, param_path) IN
         [kind |-> "ok",
          val  |-> RandomVariates(self._samples_transposed.d[param_index],
                                  self._values[param_index])]

\* the value at a quantile of a non-empty vector (the level in half percents,
\* by nearest rank)
Quantile(samples, half_percents) ==
    LET sorted == SortSeq(samples, LAMBDA a, b : a < b)
        rank   == (half_percents * Len(samples) + 199) \div 200
    IN sorted[IF rank < 1 THEN 1 ELSE rank]

\* RandomVariates.equal_tail_confidence_interval: the (1-cl)/2 and
\* 1-(1-cl)/2 quantiles of the samples, cl in percent; needs 0 < cl < 1
equal_tail_confidence_interval(variate, cl) ==
    IF ~(0 < cl /\ cl < 100) THEN Raise("ValueError")
    ELSE [kind |-> "ok",
          val  |-> [low_bound |-> Quantile(variate.samples, 100 - cl),
                    hi_bound  |-> Quantile(variate.samples, 100 + cl)]]

\* a plausible slip: only "equal tail" has a function that gathers the errors
ErrorsGathererOfEqualTail(error_type) ==
    IF error_type = "equal tail" THEN Some("equal_tail_confidence_interval") ELSE None

\* the function that gathers the errors for an error type (None: no such type)
ErrorsGatherer(error_type) ==
    IF error_type = "equal tail" THEN Some("equal_tail_confidence_interval")
    ELSE IF error_type = "hpd" THEN Some("equal_tail_confidence_interval")
    ELSE None

\* this_par.unit: the parameters of the model have no unit
UnitOf(this_par) == ""

\* the row of the data frame for one parameter; the average error
\* (hi_bound - low_bound) / 2.0 is kept as the pair of its operands
FrameRow(self, this_par, cl) ==
    LET this_phys_q == get_variates(self, this_par.path).val
        bounds      == equal_tail_confidence_interval(this_phys_q, cl)
    IN
    IF bounds.kind = "error" THEN bounds
    ELSE [kind |-> "ok",
          val  |-> [path           |-> this_par.path,
                    value          |-> this_phys_q.value,
                    negative_error |-> bounds.val.low_bound - this_phys_q.value,
                    positive_error |-> bounds.val.hi_bound - this_phys_q.value,
                    error          |-> <<bounds.val.hi_bound - bounds.val.low_bound, 2>>,
                    unit           |-> UnitOf(this_par)]]

\* _AnalysisResults.get_data_frame
get_data_frame(self, error_type, cl) ==
    IF ErrorsGatherer(error_type) = None THEN Raise("ValueError")
    ELSE LET rows == [i \in 1..Len(self._optimized_model) |->
                         FrameRow(self, self._optimized_model[i], cl)]
         IN IF \E i \in 1..Len(rows) : rows[i].kind = "error"
            THEN rows[CHOOSE i \in 1..Len(rows) :
                         rows[i].kind = "error"
                         /\ \A j \in 1..(i - 1) : rows[j].kind = "ok"]
            ELSE [kind |-> "ok", val |-> [i \in 1..Len(rows) |-> rows[i].val]]

(***************************************************************************)
(* The container: extensions with a header (cards: key, value) and named   *)
(* columns.  A key is a tuple: <<"MODEL">>, <<"STAT", 0>> for "STAT0".     *)
(***************************************************************************)
Card(key, val) == [key |-> key, val |-> val]

\* header.get(key): the value of the card, or None
HeaderGet(header, key) ==
    IF \E i \in 1..Len(header) : header[i].key = key
    THEN Some(header[CHOOSE i \in 1..Len(header) : header[i].key = key].val)
    ELSE None

\* header.set(key, value): replaces the card's value, or appends a card
HeaderSet(header, key, val) ==
    IF \E i \in 1..Len(header) : header[i].key = key
    THEN [i \in 1..Len(header) |->
            IF header[i].key = key THEN Card(key, val) ELSE header[i]]
    ELSE Append(header, Card(key, val))

Column(name, data, unit) == [name |-> name, data |-> data, unit |-> unit]

HasField(ext, name) == \E i \in 1..Len(ext.columns) : ext.columns[i].name = name

\* fits_extension.data.field(name)
Field(ext, name) ==
    ext.columns[CHOOSE i \in 1..Len(ext.columns) : ext.columns[i].name = name].data

\* FITSExtension.__init__: the first element of every column is inspected,
\* the columns are stored as they are given
FITSExtension(data_tuple, header_tuple) ==
    IF \E i \in 1..Len(data_tuple) : Len(data_tuple[i].data.d) = 0
    THEN Raise("IndexError")
    ELSE [kind |-> "ok", val |-> [header |-> header_tuple, columns |-> data_tuple]]

\* the cards "STAT%i" and "PN%i" of the statistic values, i counted from 0
RECURSIVE StatCards(_, _, _)
StatCards(header, stat_series, i) ==
    IF i > Len(stat_series) THEN header
    ELSE StatCards(
            HeaderSet(HeaderSet(header, <<"STAT", i - 1>>, stat_series[i].value),
                      <<"PN", i - 1>>, stat_series[i].name),
            stat_series, i + 1)

\* ANALYSIS_RESULTS.__init__ (the three columns of errors, which the reader
\* never opens, are left out)
ANALYSIS_RESULTS(analysis_results) ==
    LET optimized_model == clone_model(analysis_results._optimized_model)
        n_parameters    == Len(free_parameters(optimized_model))
        is_mle          == analysis_results._analysis_type = "MLE"
    IN
    IF is_mle /\ analysis_results.class # "MLEResults" THEN Raise("AssertionError")
    ELSE IF ~is_mle /\ analysis_results.class # "BayesianResults"
         THEN Raise("AssertionError")
    ELSE IF is_mle /\ Shape(analysis_results._covariance_matrix)
                        # <<n_parameters, n_parameters>>
         THEN Raise("AssertionError")
    ELSE
      LET covariance_matrix == IF is_mle THEN analysis_results._covariance_matrix
                               ELSE Zeros1(n_parameters)
          samples == IF is_mle THEN Zeros1(n_parameters)
                     ELSE analysis_results._samples_transposed
          yaml == HeaderText[optimized_model]
          data_tuple ==
              << Column("NAME",
                        Arr1([i \in 1..n_parameters |-> optimized_model[i].path]), None),
                 Column("VALUE", Arr1(analysis_results._values), None),
                 Column("COVARIANCE", covariance_matrix, None),
                 Column("SAMPLES", samples, None) >>
          ext == FITSExtension(data_tuple,
                    << Card(<<"EXTNAME">>, "ANALYSIS_RESULTS"),
                       Card(<<"MODEL">>, None),
                       Card(<<"ORIGIN">>, "3ML"),
                       Card(<<"RESUTYPE">>, None) >>)
      IN
      IF ext.kind = "error" THEN ext
      ELSE [kind |-> "ok",
            val  |-> [ext.val EXCEPT !.header =
                        StatCards(
                          HeaderSet(HeaderSet(@, <<"MODEL">>, yaml),
                                    <<"RESUTYPE">>, analysis_results._analysis_type),
                          analysis_results._optimal_statistic_values, 1)]]

\* SEQUENCE.__init__
SEQUENCE(name, data_tuple) ==
    LET ext == FITSExtension(data_tuple,
                    << Card(<<"EXTNAME">>, "SEQUENCE"),
                       Card(<<"ORIGIN">>, "3ML"),
                       Card(<<"SEQ_TYPE">>, None) >>)
    IN
    IF ext.kind = "error" THEN ext
    ELSE [kind |-> "ok",
          val  |-> [ext.val EXCEPT !.header = HeaderSet(@, <<"SEQ_TYPE">>, name)]]

\* AnalysisResultsFITS.__init__: the SEQUENCE extension first when
\* sequence_name is given, then one extension per result, EXTVER = 1, 2, ...
AnalysisResultsFITS(analysis_results, sequence) ==
    LET n == Len(analysis_results)
        results_ext == [i \in 1..n |-> ANALYSIS_RESULTS(analysis_results[i])]
        sequence_ext ==
            IF sequence = None THEN <<>>
            ELSE <<SEQUENCE(sequence[1].sequence_name, sequence[1].sequence_tuple)>>
    IN
    IF sequence_ext # <<>> /\ sequence_ext[1].kind = "error" THEN sequence_ext[1]
    ELSE IF \E i \in 1..n : results_ext[i].kind = "error"
         THEN results_ext[CHOOSE i \in 1..n :
                /\ results_ext[i].kind = "error"
                /\ \A j \in 1..(i - 1) : results_ext[j].kind = "ok"]
    ELSE [kind |-> "ok",
          val  |-> [i \in 1..Len(sequence_ext) |-> sequence_ext[i].val]
                   \o [i \in 1..n |->
                        [results_ext[i].val EXCEPT !.header =
                            HeaderSet(@, <<"EXTVER">>, i)]]]

(***************************************************************************)
(* Column schema inference.  An element of a column is described by what   *)
(* the inference looks at: its Python type, the numpy type of its value,   *)
(* its unit (a Quantity), its length (a string), the numpy types of its    *)
(* items (a list or an array).                                             *)
(***************************************************************************)
Element(type, dtype, unit, items) ==
    [type |-> type, dtype |-> dtype, unit |-> unit, items |-> items]

\* _NUMPY_TO_FITS_CODE
_NUMPY_TO_FITS_CODE ==
    [dtype \in {"int16", "int32", "int64", "uint16", "uint32", "float32", "float64"} |->
        CASE dtype = "int16"   -> "I"
          [] dtype = "int32"   -> "J"
          [] dtype = "int64"   -> "K"
          [] dtype = "uint16"  -> "U"
          [] dtype = "uint32"  -> "V"
          [] dtype = "float32" -> "E"
          [] OTHER             -> "D"]

\* _NUMPY_TO_FITS_CODE[dtype], the repeat count in front
CodeOf(repeat, dtype) ==
    IF dtype \in DOMAIN _NUMPY_TO_FITS_CODE
    THEN [kind |-> "ok", val |-> <<repeat, _NUMPY_TO_FITS_CODE[dtype]>>]
    ELSE Raise("KeyError")

\* raise RuntimeError("... column %s ..." % column_name)
RaiseNaming(column_name) ==
    [kind |-> "error", exc |-> "RuntimeError", names |-> column_name]

\* the branch for a list or an array as first element; np.array(test_value,
\* col_type) succeeds when every item can be made a col_type (anything can
\* be made a string, a word cannot be made a number)
FormatOfArray(column_name, test_value) ==
    IF Len(test_value.items) = 0 THEN RaiseNaming(column_name)
    ELSE LET col_type == test_value.items[1]
             items == test_value.items
             coercible == \/ col_type = "string_"
                          \/ \A i \in 1..Len(items) : items[i] # "string_"
         IN
         IF col_type = "object_" THEN Raise("AssertionError")
         ELSE IF ~coercible THEN RaiseNaming(column_name)
         ELSE CodeOf(Len(test_value.items), col_type)

\* the body of the loop of FITSExtension.__init__ for one column:
\* [format, unit] of the fits.Column, or the exception
FormatOf(column_name, column_data) ==
    IF Len(column_data) = 0 THEN Raise("IndexError")
    ELSE LET test_value == column_data[1]
             format ==
                CASE test_value.type = "Quantity" -> CodeOf(1, test_value.dtype)
                  [] test_value.type = "str" ->
                        [kind |-> "ok", val |-> <<Len(test_value.items), "A">>]
                  [] test_value.type = "scalar" -> CodeOf(1, test_value.dtype)
                  [] test_value.type \in {"list", "ndarray"} ->
                        FormatOfArray(column_name, test_value)
                  [] OTHER -> RaiseNaming(column_name)
         IN IF format.kind = "error" THEN format
            ELSE [kind |-> "ok",
                  val  |-> [name |-> column_name, format |-> format.val,
                            unit |-> IF test_value.type = "Quantity"
                                     THEN Some(test_value.unit) ELSE None]]

\* FITSExtension.__init__ on columns described by their elements: the
\* fits.Column of every column, or the exception of the first that fails
FITSExtensionOf(data_tuple) ==
    LET columns == [i \in 1..Len(data_tuple) |->
                       FormatOf(data_tuple[i].name, data_tuple[i].data)]
    IN IF \E i \in 1..Len(columns) : columns[i].kind = "error"
       THEN columns[CHOOSE i \in 1..Len(columns) :
                       columns[i].kind = "error"
                       /\ \A j \in 1..(i - 1) : columns[j].kind = "ok"]
       ELSE [kind |-> "ok",
             val  |-> [class |-> "FITSExtension",
                       columns |-> [i \in 1..Len(columns) |-> columns[i].val]]]

(***************************************************************************)
(* The reader                                                              *)
(***************************************************************************)
ExtName(ext) == HeaderGet(ext.header, <<"EXTNAME">>)

\* EXTVER of an extension (1 when the card is absent)
ExtVer(ext) ==
    IF HeaderGet(ext.header, <<"EXTVER">>) = None THEN 1
    ELSE HeaderGet(ext.header, <<"EXTVER">>)[1]

\* map(lambda x: x.name, f).count('ANALYSIS_RESULTS')
CountResults(f) ==
    Cardinality({i \in 1..Len(f) : ExtName(f[i]) = Some("ANALYSIS_RESULTS")})

\* a plausible slip: the version is not looked at
MatchingName(f, name, ver) == {i \in 1..Len(f) : ExtName(f[i]) = Some(name)}

\* f[name, ver]: the positions of the extensions of that name and version
Matching(f, name, ver) ==
    {i \in 1..Len(f) : ExtName(f[i]) = Some(name) /\ ExtVer(f[i]) = ver}

\* f['SEQUENCE']: the positions of the extensions of that name
Named(f, name) == {i \in 1..Len(f) : ExtName(f[i]) = Some(name)}

First(S) == CHOOSE i \in S : \A j \in S : i <= j

\* the dictionary key that Python's None makes
NoneKey == "None"

\* the loop over header.keys() gathering the statistic values, from card i on
RECURSIVE GatherStats(_, _, _)
GatherStats(header, i, statistic_values) ==
    IF i > Len(header) THEN statistic_values
    ELSE IF header[i].key[1] = "STAT"
    THEN LET id    == header[i].key[2]
             value == header[i].val
             name  == HeaderGet(header, <<"PN", id>>)
         IN GatherStats(header, i + 1,
                DictSet(statistic_values,
                        IF name = None THEN NoneKey ELSE name[1], value))
    ELSE GatherStats(header, i + 1, statistic_values)

\* fits_extension.data.field("COVARIANCE").T
CovarianceFromField(field) == Transpose(field)

\* a plausible slip: the field handed on as it is stored
SamplesAsStored(field) == field

\* fits_extension.data.field("SAMPLES"), handed on as samples.T
SamplesFromField(field) == Transpose(field)

\* what _load_one_results does when the tag is neither "MLE" nor "Bayesian":
\* it falls off the end of the function, which returns None
UnknownType(analysis_type) == [kind |-> "ok", val |-> NoObject]

\* _load_one_results from the parsed model on; rnd is what the random
\* generator returns if asked
LoadParsed(fits_extension, analysis_type, parsed, rnd) ==
    IF parsed = {} THEN Raise("ParseError")
    ELSE
      LET optimized_model  == CHOOSE m \in parsed : TRUE
          statistic_values == GatherStats(fits_extension.header, 1, <<>>)
      IN
      IF analysis_type = Some("MLE")
      THEN IF ~HasField(fits_extension, "COVARIANCE") THEN Raise("KeyError")
           ELSE MLEResultsInit(optimized_model,
                               CovarianceFromField(Field(fits_extension, "COVARIANCE")),
                               statistic_values, NSamples, rnd)
      ELSE IF analysis_type = Some("Bayesian")
      THEN IF ~HasField(fits_extension, "SAMPLES") THEN Raise("KeyError")
           ELSE BayesianResultsInit(optimized_model,
                                    SamplesFromField(Field(fits_extension, "SAMPLES")),
                                    statistic_values)
      ELSE UnknownType(analysis_type)

\* _load_one_results
_load_one_results(fits_extension, rnd) ==
    IF HeaderGet(fits_extension.header, <<"MODEL">>) = None
    THEN Raise("AttributeError")
    ELSE LoadParsed(fits_extension,
                    HeaderGet(fits_extension.header, <<"RESUTYPE">>),
                    ModelOfText[HeaderGet(fits_extension.header, <<"MODEL">>)[1]],
                    rnd)

\* _load_one_results(f['ANALYSIS_RESULTS', ver])
LoadBlock(f, ver, rnd) ==
    IF Matching(f, "ANALYSIS_RESULTS", ver) = {} THEN Raise("KeyError")
    ELSE _load_one_results(f[First(Matching(f, "ANALYSIS_RESULTS", ver))], rnd)

\* AnalysisResultsSet.__init__
AnalysisResultsSet(results) ==
    [class |-> "AnalysisResultsSet", _results |-> results,
     _sequence_name |-> None, _sequence_tuple |-> None]

\* AnalysisResultsSet.characterize_sequence: [ret, obj], obj the set afterwards
characterize_sequence(self, name, data_tuple) ==
    LET named == [self EXCEPT !._sequence_name = Some(name)] IN
    IF \E i \in 1..Len(data_tuple) : Len(data_tuple[i].data.d) # Len(self._results)
    THEN [ret |-> Raise("AssertionError"), obj |-> named]
    ELSE [ret |-> Ok, obj |-> [named EXCEPT !._sequence_tuple = Some(data_tuple)]]

\* str(header.get("SEQ_TYPE"))
SeqType(ext) ==
    IF HeaderGet(ext.header, <<"SEQ_TYPE">>) = None THEN "None"
    ELSE HeaderGet(ext.header, <<"SEQ_TYPE">>)[1]

\* open_fits_file['SEQUENCE'] when no extension has that name
NoSequence(this_set) == Raise("KeyError")

\* _load_set_of_results; rnds[i] is the random matrix for the i-th block
_load_set_of_results(open_fits_file, n_results, rnds) ==
    LET one == [i \in 1..n_results |-> LoadBlock(open_fits_file, i, rnds[i])] IN
    IF \E i \in 1..n_results : one[i].kind = "error"
    THEN one[First({i \in 1..n_results : one[i].kind = "error"})]
    ELSE
      LET this_set == AnalysisResultsSet([i \in 1..n_results |-> one[i].val]) IN
      IF Named(open_fits_file, "SEQUENCE") = {} THEN NoSequence(this_set)
      ELSE
        LET sequence_ext == open_fits_file[First(Named(open_fits_file, "SEQUENCE"))]
            done == characterize_sequence(this_set, SeqType(sequence_ext),
                                          sequence_ext.columns)
        IN
        IF done.ret.kind = "error" THEN done.ret
        ELSE [kind |-> "ok", val |-> done.obj]

\* the branch "if n_results == 1" of load_analysis_results
IsSingle(n_results) == n_results = 1

\* load_analysis_results
load_analysis_results(f, rnds) ==
    LET n_results == CountResults(f) IN
    IF IsSingle(n_results)
    THEN LoadBlock(f, 1, rnds[1])
    ELSE _load_set_of_results(f, n_results, rnds)

(***************************************************************************)
(* Result Sets                                                             *)
(***************************************************************************)
\* AnalysisResultsSet.set_x: [ret, obj]
set_x(self, name, x, unit) ==
    IF Len(x) # Len(self._results)
    THEN [ret |-> Raise("AssertionError"), obj |-> self]
    ELSE characterize_sequence(self, name, <<Column("VALUE", Arr1(x), unit)>>)

\* AnalysisResultsSet.set_bins: [ret, obj]
set_bins(self, name, lower_bounds, upper_bounds, unit) ==
    IF Len(upper_bounds) # Len(lower_bounds)
    THEN [ret |-> Raise("AssertionError"), obj |-> self]
    ELSE IF Len(upper_bounds) # Len(self._results)
    THEN [ret |-> Raise("AssertionError"), obj |-> self]
    ELSE characterize_sequence(self, name,
            << Column("LOWER_BOUND", Arr1(lower_bounds), unit),
               Column("UPPER_BOUND", Arr1(upper_bounds), unit) >>)

\* a plausible slip: the default index counted from 1
DefaultSequenceFromOne(n) == <<Column("VALUE", Arr1([i \in 1..n |-> i]), None)>>

\* (('VALUE', range(len(self))),)
DefaultSequence(n) == <<Column("VALUE", Arr1([i \in 1..n |-> i - 1]), None)>>

\* the part of AnalysisResultsSet.write_to before the file is written:
\* [ret, obj, fits], obj the set afterwards, fits the extensions
SetExtensions(self) ==
    LET named == IF self._sequence_name = None
                 THEN characterize_sequence(self, "unspecified",
                                            DefaultSequence(Len(self._results)))
                 ELSE [ret |-> Ok, obj |-> self]
    IN
    IF named.ret.kind = "error" THEN [ret |-> named.ret, obj |-> named.obj]
    ELSE IF named.obj._sequence_tuple = None
    THEN [ret |-> Raise("AttributeError"), obj |-> named.obj]
    ELSE LET fits == AnalysisResultsFITS(named.obj._results,
                        Some([sequence_name  |-> named.obj._sequence_name[1],
                              sequence_tuple |-> named.obj._sequence_tuple[1]]))
         IN IF fits.kind = "error" THEN [ret |-> fits, obj |-> named.obj]
            ELSE [ret |-> Ok, obj |-> named.obj, fits |-> fits.val]

(***************************************************************************)
(* Inputs of the constructors                                              *)
(***************************************************************************)
SampleVals == {1, 2}

Draws(n, k) == {Arr2(rows, k) : rows \in [1..n -> [1..k -> SampleVals]]}

Matrix(r, c, a, b) == Arr2([i \in 1..r |-> [j \in 1..c |-> a * i + b * j]], c)

\* square matrices of the right size (symmetric or not), matrices of a wrong
\* shape, a vector, the 0-dimensional value that stands for "no covariance",
\* and the empty vector and the empty matrix
CovInputs(k) ==
    { Matrix(k, k, 1, 1), Matrix(k, k, 2, 1), Matrix(k + 1, k + 1, 1, 1),
      Matrix(k, k + 1, 1, 1), Matrix(k + 1, k, 1, 1), Arr1([i \in 1..k |-> 1]),
      Scalar(0), Arr1(<<>>), Arr2(<<>>, 0) }

ModelInputs == UNION {ModelsOf(k) : k \in 1..MaxK}

\* sample matrices for a model of k parameters: k columns, k + 1 columns, and
\* a vector in place of a matrix
SampleInputs(k) ==
    UNION {Draws(n, k) : n \in 1..NSamples}
    \cup Draws(1, k + 1) \cup {Arr1([i \in 1..k |-> 1])}

(***************************************************************************)
(* Random matrices for a call of load_analysis_results: one per block that *)
(* is tagged "MLE", NSamples rows and as many columns as the block's model *)
(* has free parameters                                                     *)
(***************************************************************************)
NoDraw == Arr2(<<>>, 0)

DrawsFor(parsed) ==
    IF parsed = {} THEN {NoDraw}
    ELSE Draws(NSamples, Len(CHOOSE m \in parsed : TRUE))

BlockDraws(f, ver) ==
    LET at == Matching(f, "ANALYSIS_RESULTS", ver) IN
    IF at = {} THEN {NoDraw}
    ELSE LET h == f[First(at)].header IN
         IF /\ HeaderGet(h, <<"RESUTYPE">>) = Some("MLE")
            /\ HeaderGet(h, <<"MODEL">>) # None
         THEN DrawsFor(ModelOfText[HeaderGet(h, <<"MODEL">>)[1]])
         ELSE {NoDraw}

RECURSIVE RndSeqs(_, _)
RndSeqs(f, n) ==
    IF n = 0 THEN {<<>>}
    ELSE {Append(r, d) : r \in RndSeqs(f, n - 1), d \in BlockDraws(f, n)}

RndInputs(f) == RndSeqs(f, IF CountResults(f) = 0 THEN 1 ELSE CountResults(f))

(***************************************************************************)
(* A script that builds one result, writes it and reads it back            *)
(***************************************************************************)
NothingYet ==
    /\ text = <<>> /\ escaped = <<>> /\ restored = <<>>
    /\ args = None /\ drawn = <<>> /\ res = NoObject /\ written = None
    /\ ret = Ok /\ warned = FALSE
    /\ out = None /\ heap = <<>>

ResultInit ==
    /\ pc = "new"
    /\ file = None
    /\ NothingYet

\* the matrix a constructor of results took from the generator, if it is one
\* that samples
DrawnIn(r) ==
    IF r.kind = "ok" /\ "all" \in DOMAIN r
    THEN <<[samples |-> r.all, random |-> r.sampled]>> ELSE <<>>

\* the script's variables after a call that returned r
Returned(r) ==
    /\ ret' = IF r.kind = "ok" THEN Ok ELSE r
    /\ res' = IF r.kind = "ok" THEN r.val ELSE NoObject
    /\ drawn' = DrawnIn(r)
    /\ warned' = (r.kind = "ok" /\ "warn" \in DOMAIN r /\ r.warn)

\* r = MLEResults(model, covariance, stats, n_samples)
MLEResultsNew ==
    /\ pc = "new"
    /\ \E model \in ModelInputs, stats \in StatInputs, n \in 1..NSamples :
       \E cov \in CovInputs(Len(model)) :
       \E rnd \in IF Shape(cov) = <<Len(model), Len(model)>>
                   THEN Draws(n, Len(model)) ELSE {NoDraw} :
          /\ args' = Some([class |-> "MLEResults", model |-> model,
                           matrix |-> cov, stats |-> stats, n_samples |-> n])
          /\ Returned(MLEResultsInit(model, cov, stats, n, rnd))
    /\ pc' = IF ret'.kind = "ok" THEN "built" ELSE "failed"
    /\ UNCHANGED <<text, escaped, restored, written, file, out, heap>>

\* r = BayesianResults(model, samples, stats)
BayesianResultsNew ==
    /\ pc = "new"
    /\ \E model \in ModelInputs, stats \in StatInputs :
       \E samples \in SampleInputs(Len(model)) :
          /\ args' = Some([class |-> "BayesianResults", model |-> model,
                           matrix |-> samples, stats |-> stats, n_samples |-> 0])
          /\ Returned(BayesianResultsInit(model, samples, stats))
    /\ pc' = IF ret'.kind = "ok" THEN "built" ELSE "failed"
    /\ UNCHANGED <<text, escaped, restored, written, file, out, heap>>

\* what the history keeps of a written result: everything but the synthetic
\* samples of a point estimate, which are not stored in the file
History(obj) ==
    IF obj.class = "MLEResults" THEN [obj EXCEPT !._samples_transposed = None]
    ELSE obj

\* the script's variables after write_to built the extensions fits
Wrote(fits, overwrite) ==
    IF fits.kind = "error"
    THEN /\ ret' = fits
         /\ pc' = "failed"
         /\ UNCHANGED <<args, drawn, res, written, file>>
    ELSE IF file # None /\ ~overwrite
    THEN /\ ret' = Raise("IOError")
         /\ pc' = "failed"
         /\ UNCHANGED <<args, drawn, res, written, file>>
    ELSE /\ file' = Some(fits.val)
         /\ written' = Some(History(res))
         /\ res' = NoObject
         /\ args' = None
         /\ drawn' = <<>>
         /\ ret' = Ok
         /\ pc' = "written"

\* r.write_to(filename, overwrite); the script then lets go of r
WriteTo ==
    /\ pc = "built"
    /\ \E overwrite \in BOOLEAN :
          Wrote(AnalysisResultsFITS(<<res>>, None), overwrite)
    /\ warned' = FALSE
    /\ UNCHANGED <<text, escaped, restored, out, heap>>

\* r = load_analysis_results(filename)
Load ==
    /\ pc \in {"written", "stored"}
    /\ file # None
    /\ \E rnds \in RndInputs(file[1]) :
          Returned(load_analysis_results(file[1], rnds))
    /\ pc' = "loaded"
    /\ UNCHANGED <<text, escaped, restored, args, written, file, out, heap>>

ResultNext == MLEResultsNew \/ BayesianResultsNew \/ WriteTo \/ Load

SpecResult == ResultInit /\ [][ResultNext]_vars

(***************************************************************************)
(* Containers found on disk: well-formed blocks as the writer makes them,  *)
(* and blocks with an unknown tag, a missing card or a missing column      *)
(***************************************************************************)
RemoveCard(ext, key) ==
    [ext EXCEPT !.header = SelectSeq(@, LAMBDA c : c.key # key)]

RemoveColumn(ext, name) ==
    [ext EXCEPT !.columns = SelectSeq(@, LAMBDA c : c.name # name)]

SetCard(ext, key, val) == [ext EXCEPT !.header = HeaderSet(@, key, val)]

MLEBlock ==
    ANALYSIS_RESULTS(
        MLEResultsInit(Model(1, "lo"), Matrix(1, 1, 1, 1), StatsOf(1), 1,
                       Arr2(<< <<2>> >>, 1)).val).val

BayesianBlock ==
    ANALYSIS_RESULTS(
        BayesianResultsInit(Model(2, "free"), Arr2(<< <<1, 2>> >>, 2),
                            StatsOf(1)).val).val

BlockKinds ==
    {"MLE", "Bayesian", "Other", "NoType", "NoModel", "BadModel", "NoPN",
     "NoCovariance", "NoSamples"}

WellFormed == {"MLE", "Bayesian"}

BlockOf(kind) ==
    CASE kind = "MLE"          -> MLEBlock
      [] kind = "Bayesian"     -> BayesianBlock
      [] kind = "Other"        -> SetCard(BayesianBlock, <<"RESUTYPE">>, "Other")
      [] kind = "NoType"       -> RemoveCard(MLEBlock, <<"RESUTYPE">>)
      [] kind = "NoModel"      -> RemoveCard(MLEBlock, <<"MODEL">>)
      [] kind = "BadModel"     ->
            SetCard(MLEBlock, <<"MODEL">>, CHOOSE t \in ForeignTexts : TRUE)
      [] kind = "NoPN"         -> RemoveCard(BayesianBlock, <<"PN", 0>>)
      [] kind = "NoCovariance" -> RemoveColumn(MLEBlock, "COVARIANCE")
      [] OTHER                 -> RemoveColumn(BayesianBlock, "SAMPLES")

\* a SEQUENCE block of one column VALUE with rows 0 .. n-1
SequenceBlock(n) ==
    [header  |-> << Card(<<"EXTNAME">>, "SEQUENCE"), Card(<<"ORIGIN">>, "3ML"),
                    Card(<<"SEQ_TYPE">>, "time") >>,
     columns |-> << Column("VALUE", Arr1([i \in 1..n |-> i - 1]), None) >>]

SequenceKinds == {"absent", "fitting", "longer"}

ContainerOf(kinds, seq) ==
    (CASE seq = "absent"  -> <<>>
       [] seq = "fitting" -> <<SequenceBlock(Len(kinds))>>
       [] OTHER           -> <<SequenceBlock(Len(kinds) + 1)>>)
    \o [i \in 1..Len(kinds) |-> SetCard(BlockOf(kinds[i]), <<"EXTVER">>, i)]

KindSeqs == UNION {[1..n -> BlockKinds] : n \in 0..MaxBlocks}

\* a container is on disk; args remembers of which kinds its blocks are
ReaderInit ==
    /\ pc = "stored"
    /\ \E kinds \in KindSeqs, seq \in SequenceKinds :
          /\ file = Some(ContainerOf(kinds, seq))
          /\ args = Some([class |-> "Container", kinds |-> kinds, seq |-> seq])
    /\ text = <<>> /\ escaped = <<>> /\ restored = <<>>
    /\ drawn = <<>> /\ res = NoObject /\ written = None
    /\ ret = Ok /\ warned = FALSE
    /\ out = None /\ heap = <<>>

ReaderNext == Load

SpecReader == ReaderInit /\ [][ReaderNext]_vars

(***************************************************************************)
(* A script that holds a Result Set, describes its sequence, writes it and *)
(* reads it back                                                           *)
(***************************************************************************)
MLERecord ==
    MLEResultsInit(Model(1, "lo"), Matrix(1, 1, 1, 1), StatsOf(1), 1,
                   Arr2(<< <<2>> >>, 1)).val

BayesianRecord ==
    BayesianResultsInit(Model(2, "free"), Arr2(<< <<1, 2>> >>, 2), StatsOf(1)).val

RecordOf(kind) == IF kind = "MLE" THEN MLERecord ELSE BayesianRecord

SetInit ==
    /\ pc = "set"
    /\ \E n \in 0..MaxRecords : \E kinds \in [1..n -> WellFormed] :
          res = AnalysisResultsSet([i \in 1..n |-> RecordOf(kinds[i])])
    /\ text = <<>> /\ escaped = <<>> /\ restored = <<>>
    /\ args = None /\ drawn = <<>> /\ written = None /\ file = None
    /\ ret = Ok /\ warned = FALSE
    /\ out = None /\ heap = <<>>

SeqNames == {"time", "energy"}

Units == {None, Some("s")}

\* vectors of the length of the set, and one longer
Vectors(n) == {[i \in 1..m |-> 10 * i] : m \in {n, n + 1}}

\* the script's variables after a method of the set returned
Described(r) ==
    /\ ret' = r.ret
    /\ res' = r.obj
    /\ UNCHANGED <<pc, text, escaped, restored, args, drawn, written, file, warned,
                   out, heap>>

\* s.set_x(name, x, unit)
SetX ==
    /\ pc = "set"
    /\ \E name \in SeqNames, x \in Vectors(Len(res._results)), unit \in Units :
          Described(set_x(res, name, x, unit))

\* s.set_bins(name, lower_bounds, upper_bounds, unit)
SetBins ==
    /\ pc = "set"
    /\ \E name \in SeqNames, unit \in Units :
       \E lower \in Vectors(Len(res._results)), upper \in Vectors(Len(res._results)) :
          Described(set_bins(res, name, lower, upper, unit))

\* s.characterize_sequence(name, data_tuple)
CharacterizeSequence ==
    /\ pc = "set"
    /\ \E name \in SeqNames, x \in Vectors(Len(res._results)) :
          Described(characterize_sequence(res, name,
                        <<Column("VALUE", Arr1(x), None)>>))

\* the script's variables after write_to built the extensions of the set
WroteSet(w, overwrite) ==
    IF w.ret.kind = "error"
    THEN /\ ret' = w.ret
         /\ res' = w.obj
         /\ UNCHANGED <<pc, written, file>>
    ELSE IF file # None /\ ~overwrite
    THEN /\ ret' = Raise("IOError")
         /\ res' = w.obj
         /\ UNCHANGED <<pc, written, file>>
    ELSE /\ file' = Some(w.fits)
         /\ written' = Some([class |-> "AnalysisResultsSet", before |-> res,
                             after |-> w.obj])
         /\ res' = w.obj
         /\ ret' = Ok
         /\ pc' = "written"

\* s.write_to(filename, overwrite)
WriteSet ==
    /\ pc \in {"set", "written"}
    /\ \E overwrite \in BOOLEAN : WroteSet(SetExtensions(res), overwrite)
    /\ UNCHANGED <<text, escaped, restored, args, drawn, warned, out, heap>>

SetNext == SetX \/ SetBins \/ CharacterizeSequence \/ WriteSet \/ Load

SpecSet == SetInit /\ [][SetNext]_vars

(***************************************************************************)
(* A script that builds a point estimate from many samples, some of them   *)
(* outside the bounds of the parameters                                    *)
(***************************************************************************)
\* a sample outside the bounds of every bounded parameter
OutRow(model) ==
    [i \in 1..Len(model) |->
        IF model[i].min_value # None THEN model[i].min_value[1] - 1
        ELSE IF model[i].max_value # None THEN model[i].max_value[1] + 1
        ELSE model[i].value]

\* a sample within the bounds: the best-fit point
InRow(model) == [i \in 1..Len(model) |-> model[i].value]

\* n samples, the first j of them outside the bounds
RunOf(model, j, n) ==
    Arr2([r \in 1..n |-> IF r <= j THEN OutRow(model) ELSE InRow(model)],
         Len(model))

\* r = MLEResults(model, covariance, stats, ManySamples)
MLEResultsMany ==
    /\ pc = "new"
    /\ \E model \in ModelInputs, j \in 0..ManySamples :
          /\ args' = Some([class |-> "MLEResults", model |-> model,
                           matrix |-> Matrix(Len(model), Len(model), 1, 1),
                           stats |-> StatsOf(0), n_samples |-> ManySamples])
          /\ Returned(MLEResultsInit(model, Matrix(Len(model), Len(model), 1, 1),
                                     StatsOf(0), ManySamples,
                                     RunOf(model, j, ManySamples)))
    /\ pc' = IF ret'.kind = "ok" THEN "built" ELSE "failed"
    /\ UNCHANGED <<text, escaped, restored, written, file, out, heap>>

SamplingNext == MLEResultsMany

SpecSampling == ResultInit /\ [][SamplingNext]_vars

(***************************************************************************)
(* A script that builds one result and queries it                          *)
(***************************************************************************)
\* square matrices with negative, zero and positive entries on the diagonal
VarianceInputs(k) ==
    {Arr2([i \in 1..k |-> [j \in 1..k |-> IF i = j THEN diag[i] ELSE 1]], k) :
        diag \in [1..k -> {-1, 0, 2}]}

\* NSamples samples: the best-fit point, then copies of one other point
QueryDraws(model) ==
    {Arr2([r \in 1..NSamples |-> IF r = 1 THEN InRow(model) ELSE row], Len(model)) :
        row \in [1..Len(model) -> SampleVals]}

\* r = MLEResults(model, covariance, stats, NSamples)
MLEResultsForQueries ==
    /\ pc = "new"
    /\ \E model \in ModelInputs :
       \E cov \in VarianceInputs(Len(model)), rnd \in QueryDraws(model) :
          /\ args' = Some([class |-> "MLEResults", model |-> model,
                           matrix |-> cov, stats |-> StatsOf(1),
                           n_samples |-> NSamples])
          /\ Returned(MLEResultsInit(model, cov, StatsOf(1), NSamples, rnd))
    /\ pc' = IF ret'.kind = "ok" THEN "built" ELSE "failed"
    /\ UNCHANGED <<text, escaped, restored, written, file, out, heap>>

\* r = BayesianResults(model, samples, stats)
BayesianResultsForQueries ==
    /\ pc = "new"
    /\ \E model \in ModelInputs : \E samples \in QueryDraws(model) :
          /\ args' = Some([class |-> "BayesianResults", model |-> model,
                           matrix |-> samples, stats |-> StatsOf(1),
                           n_samples |-> 0])
          /\ Returned(BayesianResultsInit(model, samples, StatsOf(1)))
    /\ pc' = IF ret'.kind = "ok" THEN "built" ELSE "failed"
    /\ UNCHANGED <<text, escaped, restored, written, file, out, heap>>

\* the script's variables after the query q of the result returned r
Answered(q, r) ==
    /\ out' = Some([query |-> q, r |-> r])
    /\ ret' = IF r.kind = "ok" THEN Ok ELSE r
    /\ UNCHANGED <<pc, text, escaped, restored, args, drawn, res, written, file,
                   warned, heap>>

\* r.get_correlation_matrix() of a point estimate
GetCorrelationMatrix ==
    /\ pc = "built"
    /\ res.class = "MLEResults"
    /\ Answered([name |-> "get_correlation_matrix"], get_correlation_matrix(res))

ErrorTypes == {"equal tail", "hpd", "equal_tail", "sigma"}

\* confidence levels in percent
Levels == {0, 50, 68, 100}

\* r.get_data_frame(error_type, cl)
GetDataFrame ==
    /\ pc = "built"
    /\ \E error_type \in ErrorTypes, cl \in Levels :
          Answered([name |-> "get_data_frame", error_type |-> error_type, cl |-> cl],
                   get_data_frame(res, error_type, cl))

\* the paths of the parameters of the models, and one that is in no model
Paths == {ParNames[i] : i \in 1..MaxK + 1} \cup {"zz"}

\* r.get_variates(param_path)
GetVariates ==
    /\ pc = "built"
    /\ \E param_path \in Paths :
          Answered([name |-> "get_variates", param_path |-> param_path],
                   get_variates(res, param_path))

QueriesNext ==
    \/ MLEResultsForQueries \/ BayesianResultsForQueries
    \/ GetCorrelationMatrix \/ GetDataFrame \/ GetVariates

SpecQueries == ResultInit /\ [][QueriesNext]_vars

(***************************************************************************)
(* A script that keeps its model, builds a result from it, asks the result *)
(* for its model, and changes the models it holds.  Models are objects:    *)
(* heap.objects[id] is the content of the object id, heap.caller the model *)
(* of the script, heap.snapshot the model of the result, heap.got the      *)
(* model the property optimized_model returned (0: not asked yet).         *)
(***************************************************************************)
\* a plausible slip: the model itself is kept, no copy is made
SameObject(objects, id) == [objects |-> objects, id |-> id]

\* astromodels.clone_model: a new object with the content of the object id
CloneObject(objects, id) ==
    [objects |-> Append(objects, objects[id]), id |-> Len(objects) + 1]

\* the result as its methods see it: its model is the object it refers to
Self(obj, h) == [obj EXCEPT !._optimized_model = h.objects[h.snapshot]]

\* _AnalysisResults.optimized_model: [objects, id] of the model returned
optimized_model(h) == CloneObject(h.objects, h.snapshot)

\* r = BayesianResults(model, samples, stats), the script keeping model
BayesianResultsOfModel ==
    /\ pc = "new"
    /\ \E model \in ModelInputs :
         LET kept == CloneObject(<<model>>, 1) IN
          /\ args' = Some([class |-> "BayesianResults", model |-> model,
                           matrix |-> RunOf(model, 0, NSamples),
                           stats |-> StatsOf(1), n_samples |-> 0])
          /\ Returned(BayesianResultsInit(model, RunOf(model, 0, NSamples),
                                          StatsOf(1)))
          /\ heap' = [objects |-> kept.objects, caller |-> 1,
                      snapshot |-> kept.id, got |-> 0]
    /\ pc' = "built"
    /\ UNCHANGED <<text, escaped, restored, written, file, out>>

\* parameter.value = 0 on the parameter of that path
SetValue(model, path) ==
    [i \in 1..Len(model) |->
        IF model[i].path = path THEN [model[i] EXCEPT !.value = 0] ELSE model[i]]

\* parameter.fix = True: the parameter of that path is free no more
Fix(model, path) == SelectSeq(model, LAMBDA par : par.path # path)

\* what the script can do to a model it holds
Changes(model) ==
    {SetValue(model, path) : path \in Paths} \cup {Fix(model, path) : path \in Paths}

\* the script changes the object id
Changed(id) ==
    /\ \E new \in Changes(heap.objects[id]) :
          /\ new # heap.objects[id]
          /\ heap' = [heap EXCEPT !.objects[id] = new]
    /\ UNCHANGED <<pc, text, escaped, restored, args, drawn, res, written, file,
                   ret, warned, out>>

\* the script changes the model it built the result from
ChangeCallerModel ==
    /\ pc = "built"
    /\ Changed(heap.caller)

\* the script changes the model that optimized_model returned
ChangeReturnedModel ==
    /\ pc = "built"
    /\ heap.got # 0
    /\ Changed(heap.got)

\* the script's variables after the query q of the result returned r
AnsweredOf(q, r) ==
    /\ out' = Some([query |-> q, r |-> r])
    /\ ret' = IF r.kind = "ok" THEN Ok ELSE r
    /\ UNCHANGED <<pc, text, escaped, restored, args, drawn, res, written, file,
                   warned>>

\* m = r.optimized_model; the script lets go of the model it got before
OptimizedModel ==
    /\ pc = "built"
    /\ LET m == optimized_model([heap EXCEPT
                                   !.objects = SubSeq(@, 1, heap.snapshot)]) IN
          /\ heap' = [heap EXCEPT !.objects = m.objects, !.got = m.id]
          /\ AnsweredOf([name |-> "optimized_model"],
                        [kind |-> "ok", val |-> m.objects[m.id]])

\* r.get_variates(param_path)
GetVariatesOfSnapshot ==
    /\ pc = "built"
    /\ \E param_path \in Paths :
          AnsweredOf([name |-> "get_variates", param_path |-> param_path],
                     get_variates(Self(res, heap), param_path))
    /\ UNCHANGED heap

\* r.get_data_frame()
GetDataFrameOfSnapshot ==
    /\ pc = "built"
    /\ AnsweredOf([name |-> "get_data_frame", error_type |-> "equal tail", cl |-> 68],
                  get_data_frame(Self(res, heap), "equal tail", 68))
    /\ UNCHANGED heap

SnapshotNext ==
    \/ BayesianResultsOfModel \/ ChangeCallerModel \/ ChangeReturnedModel
    \/ OptimizedModel
    \/ GetVariatesOfSnapshot \/ GetDataFrameOfSnapshot

SpecSnapshot == ResultInit /\ [][SnapshotNext]_vars

(***************************************************************************)
(* A script that builds one extension from columns of every kind           *)
(***************************************************************************)
ElementInputs ==
    { Element("Quantity", "float64", "keV", <<>>),
      Element("Quantity", "int8", "s", <<>>),
      Element("str", "string_", "", <<"c", "h">>),
      Element("scalar", "float64", "", <<>>),
      Element("scalar", "int64", "", <<>>),
      Element("scalar", "bool_", "", <<>>),
      Element("scalar", "int8", "", <<>>),
      Element("scalar", "unicode_", "", <<>>),
      Element("list", "", "", <<"float64", "float64">>),
      Element("ndarray", "", "", <<"int32">>),
      Element("ndarray", "", "", <<"bool_", "bool_">>),
      Element("list", "", "", <<"object_">>),
      Element("list", "", "", <<"float64", "string_">>),
      Element("list", "", "", <<>>),
      Element("NoneType", "", "", <<>>),
      Element("dict", "", "", <<>>) }

\* columns of one kind of element, and the empty column
ColumnDataInputs ==
    {<<>>} \cup {<<e>> : e \in ElementInputs} \cup {<<e, e>> : e \in ElementInputs}

SchemaInit ==
    /\ pc = "columns"
    /\ \E n \in 1..MaxColumns : \E data \in [1..n -> ColumnDataInputs] :
          args = Some([class |-> "FITSExtension",
                       data_tuple |-> [i \in 1..n |->
                                          [name |-> <<"NAME", "VALUE", "ERROR", "UNIT">>[i],
                                           data |-> data[i]]]])
    /\ text = <<>> /\ escaped = <<>> /\ restored = <<>>
    /\ drawn = <<>> /\ res = NoObject /\ written = None /\ file = None
    /\ ret = Ok /\ warned = FALSE
    /\ out = None /\ heap = <<>>

\* ext = FITSExtension(data_tuple, header_tuple)
BuildExtension ==
    /\ pc = "columns"
    /\ LET r == FITSExtensionOf(args[1].data_tuple) IN
          /\ ret' = IF r.kind = "ok" THEN Ok ELSE r
          /\ res' = IF r.kind = "ok" THEN r.val ELSE NoObject
    /\ pc' = "extension"
    /\ UNCHANGED <<text, escaped, restored, args, drawn, written, file, warned,
                   out, heap>>

SpecSchema == SchemaInit /\ [][BuildExtension]_vars

(***************************************************************************)
(* Claims about one result                                                 *)
(***************************************************************************)
IsCall(class) == args # None /\ args[1].class = class

WasWritten(class) == pc = "loaded" /\ written # None /\ written[1].class = class

\* C2: writing an MLE result of any finite k x k covariance matrix and
\* reading the file gives an MLE result with the same best-fit values, the
\* same covariance matrix entry by entry, and the same statistic mapping
C2_MLERoundTrip ==
    WasWritten("MLEResults") =>
        /\ ret = Ok
        /\ res.class = "MLEResults"
        /\ res._values = written[1]._values
        /\ res._covariance_matrix = written[1]._covariance_matrix
        /\ AsMapping(res._optimal_statistic_values)
             = AsMapping(written[1]._optimal_statistic_values)

\* C3: a Bayesian result keeps the samples of its (n_samples, k) matrix, and
\* writing it and reading the file gives a Bayesian result with the same
\* sample matrix in the same orientation, the same best-fit values and the
\* same statistic mapping
C3_BayesianRoundTrip ==
    /\ (pc = "built" /\ IsCall("BayesianResults")) =>
            Transpose(res._samples_transposed) = args[1].matrix
    /\ WasWritten("BayesianResults") =>
        /\ ret = Ok
        /\ res.class = "BayesianResults"
        /\ res._samples_transposed = written[1]._samples_transposed
        /\ res._values = written[1]._values
        /\ AsMapping(res._optimal_statistic_values)
             = AsMapping(written[1]._optimal_statistic_values)

\* a Bayesian result of two parameters and one sample (1, 2) was read back
C3_Witness ==
    /\ WasWritten("BayesianResults")
    /\ ret = Ok
    /\ res._samples_transposed = Arr2(<< <<1>>, <<2>> >>, 1)
    /\ Len(res._optimal_statistic_values) = MaxStats

Failed == ret.kind = "error" /\ res = NoObject

\* C9 as stated: MLEResults with a covariance of any shape other than (k, k),
\* and BayesianResults with a sample matrix that has not k columns, fail and
\* give no result
C9_AnyWrongShapeFails ==
    /\ (IsCall("MLEResults") /\ pc \in {"built", "failed"}
            /\ Shape(args[1].matrix) # <<Len(args[1].model), Len(args[1].model)>>)
        => Failed
    /\ (IsCall("BayesianResults") /\ pc \in {"built", "failed"}
            /\ ~(args[1].matrix.nd = 2 /\ args[1].matrix.nc = Len(args[1].model)))
        => Failed

\* C9 amended: the same, except for the 0-dimensional value that stands
\* for "no covariance supplied", which MLEResults accepts
C9_WrongShapeFails ==
    /\ (IsCall("MLEResults") /\ pc \in {"built", "failed"}
            /\ Shape(args[1].matrix) # <<>>
            /\ Shape(args[1].matrix) # <<Len(args[1].model), Len(args[1].model)>>)
        => Failed
    /\ (IsCall("BayesianResults") /\ pc \in {"built", "failed"}
            /\ ~(args[1].matrix.nd = 2 /\ args[1].matrix.nc = Len(args[1].model)))
        => Failed

\* MLEResults was called with a (k+1, k+1) covariance and failed
C9_Witness ==
    /\ IsCall("MLEResults")
    /\ Shape(args[1].matrix) = <<Len(args[1].model) + 1, Len(args[1].model) + 1>>
    /\ pc = "failed"
    /\ ret = Raise("AssertionError")

\* min_i <= s[i] <= max_i for every free parameter i
InBounds(s, model) ==
    \A i \in 1..Len(model) :
        /\ model[i].min_value = None \/ model[i].min_value[1] <= s[i]
        /\ model[i].max_value = None \/ s[i] <= model[i].max_value[1]

\* C10: after MLEResults construction the stored samples are the drawn
\* samples that satisfy every bound, in the order they were drawn
C10_StoredAreDrawnInBounds ==
    (pc = "built" /\ IsCall("MLEResults")) =>
        LET stored == Transpose(res._samples_transposed).d IN
        /\ Len(drawn) = 1
        /\ \A r \in 1..Len(stored) : InBounds(stored[r], res._optimized_model)
        /\ stored = SelectSeq(drawn[1].samples.d,
                              LAMBDA s : InBounds(s, res._optimized_model))

\* a construction that drew two samples, kept one and rejected the other
C10_Witness ==
    /\ pc = "built" /\ IsCall("MLEResults")
    /\ drawn[1].random
    /\ Len(drawn[1].samples.d) = 2
    /\ Len(Transpose(res._samples_transposed).d) = 1

(***************************************************************************)
(* Claims about the reader                                                 *)
(***************************************************************************)
Read == pc = "loaded" /\ IsCall("Container")

NBlocks == Len(args[1].kinds)

AllWellFormed == \A i \in 1..NBlocks : args[1].kinds[i] \in WellFormed

IsRecord(o) == o.class \in {"MLEResults", "BayesianResults"}

IsSet(o) == o.class = "AnalysisResultsSet"

\* C4: of a container of well-formed blocks with a SEQUENCE block,
\* load_analysis_results returns a single record if and only if there is
\* exactly one ANALYSIS_RESULTS block, a Result Set of length n for n > 1
\* blocks, and a Result Set only when there is more than one block
C4_Dispatch ==
    (Read /\ AllWellFormed /\ args[1].seq = "fitting") =>
        /\ (ret = Ok /\ IsRecord(res)) <=> NBlocks = 1
        /\ NBlocks > 1 => (ret = Ok /\ IsSet(res) /\ Len(res._results) = NBlocks)
        /\ (ret = Ok /\ IsSet(res)) => NBlocks > 1

\* C6: load_analysis_results never returns normally when a block's RESUTYPE
\* tag is neither "MLE" nor "Bayesian"
C6_UnknownTagFatal ==
    (Read /\ \E i \in 1..NBlocks : args[1].kinds[i] = "Other") => ret.kind = "error"

\* C7: load_analysis_results fails when a block lacks MODEL, RESUTYPE, the
\* PN<i> card of a STAT<i> card, or the column of its analysis type
C7_MissingFieldFatal ==
    (Read /\ \E i \in 1..NBlocks :
                args[1].kinds[i] \in {"NoType", "NoModel", "NoPN", "NoCovariance",
                                      "NoSamples"})
        => ret.kind = "error"

\* C8: loading a container of more than one block and no SEQUENCE block
\* succeeds and returns the Result Set of all records, no descriptor attached
C8_SequenceOptional ==
    (Read /\ NBlocks > 1 /\ AllWellFormed /\ args[1].seq = "absent") =>
        /\ ret = Ok
        /\ IsSet(res)
        /\ Len(res._results) = NBlocks
        /\ res._sequence_name = None
        /\ res._sequence_tuple = None

(***************************************************************************)
(* Claims about Result Sets                                                *)
(***************************************************************************)
\* a set that never had a descriptor was written, and the file was read
ReadPlainSet ==
    /\ pc = "loaded" /\ written # None /\ written[1].class = "AnalysisResultsSet"
    /\ written[1].before._sequence_name = None

IndexDescriptor(o, n) ==
    /\ ret = Ok
    /\ IsSet(o)
    /\ Len(o._results) = n
    /\ o._sequence_tuple = Some(<<Column("VALUE", Arr1([i \in 1..n |-> i - 1]), None)>>)

\* C5 as stated: writing a Result Set of n records that never had a descriptor
\* and reading the file gives a Result Set of length n whose descriptor is
\* the single column VALUE = [0, 1, ..., n-1]
C5_AutoIndexAnySize ==
    ReadPlainSet => IndexDescriptor(res, Len(written[1].before._results))

\* C5 amended: the same for a Result Set of n >= 2 records
C5_AutoIndex ==
    (ReadPlainSet /\ Len(written[1].before._results) >= 2)
        => IndexDescriptor(res, Len(written[1].before._results))

\* a set of MaxRecords records without descriptor was written and read back
C5_Witness ==
    /\ ReadPlainSet
    /\ Len(written[1].before._results) = MaxRecords
    /\ IsSet(res)
    /\ res._sequence_name = Some("unspecified")

(***************************************************************************)
(* Claims about the sampling of a point estimate                           *)
(***************************************************************************)
BuiltMLE == pc = "built" /\ IsCall("MLEResults") /\ ret = Ok

NDrawn == Len(drawn[1].samples.d)

NStored == Len(Transpose(res._samples_transposed).d)

\* C11: MLEResults construction warns when more than 1% of the drawn samples
\* are rejected by the bounds and does not warn when fewer than 1% are;
\* either way it completes and the result holds the samples that remain
C11_WarnAboveOnePercent ==
    (pc \in {"built", "failed"} /\ IsCall("MLEResults")
        /\ Shape(args[1].matrix) = <<Len(args[1].model), Len(args[1].model)>>) =>
        /\ BuiltMLE
        /\ res.class = "MLEResults"
        /\ (NDrawn - NStored) * 100 > NDrawn => warned
        /\ (NDrawn - NStored) * 100 < NDrawn => ~warned
        /\ Transpose(res._samples_transposed).d
             = SelectSeq(drawn[1].samples.d,
                         LAMBDA s : InBounds(s, res._optimized_model))

\* a construction that rejected some samples, fewer than 1%, without warning
C11_Witness ==
    /\ BuiltMLE
    /\ NDrawn = ManySamples
    /\ NStored < NDrawn
    /\ (NDrawn - NStored) * 100 < NDrawn
    /\ ~warned

\* the set has a descriptor: a name and the columns of a successful call
HasDescriptor(o) == o._sequence_name # None /\ o._sequence_tuple # None

\* C16: once a Result Set has a sequence descriptor (by set_x, set_bins,
\* characterize_sequence, or synthesized by write_to), no later call of these
\* replaces its name or its columns
C16_DescriptorAttachedOnce ==
    [][(pc \in {"set", "written"} /\ pc' \in {"set", "written"} /\ HasDescriptor(res))
          => /\ res'._sequence_name = res._sequence_name
             /\ res'._sequence_tuple = res._sequence_tuple]_vars

\* a Result Set was written (and perhaps the file read since)
WroteSetOnce ==
    /\ pc \in {"written", "loaded"}
    /\ written # None /\ written[1].class = "AnalysisResultsSet"

\* the ANALYSIS_RESULTS blocks of the file, in file order
ResultBlocks ==
    SelectSeq(file[1], LAMBDA ext : ExtName(ext) = Some("ANALYSIS_RESULTS"))

\* the record read is the record written, as far as the file keeps it
SameRecord(read, wrote) ==
    /\ read.class = wrote.class
    /\ read._values = wrote._values
    /\ read._optimized_model = wrote._optimized_model
    /\ AsMapping(read._optimal_statistic_values)
         = AsMapping(wrote._optimal_statistic_values)

\* C17: the i-th record written gets EXTVER = i, after the SEQUENCE block,
\* and element i of the Result Set read from the file is the record that
\* was written i-th (for one record: the record read is that record)
C17_VersionsInWriteOrder ==
    WroteSetOnce =>
        LET wrote == written[1].after._results IN
        /\ ExtName(file[1][1]) = Some("SEQUENCE")
        /\ Len(ResultBlocks) = Len(wrote)
        /\ \A i \in 1..Len(wrote) :
              /\ HeaderGet(ResultBlocks[i].header, <<"EXTVER">>) = Some(i)
              /\ HeaderGet(ResultBlocks[i].header, <<"RESUTYPE">>)
                    = Some(wrote[i]._analysis_type)
        /\ (pc = "loaded" /\ Len(wrote) >= 2) =>
              /\ ret = Ok /\ IsSet(res) /\ Len(res._results) = Len(wrote)
              /\ \A i \in 1..Len(wrote) : SameRecord(res._results[i], wrote[i])
        /\ (pc = "loaded" /\ Len(wrote) = 1) => (ret = Ok /\ SameRecord(res, wrote[1]))

\* a set of MaxRecords records, the first a point estimate and the last a
\* Bayesian result, was written and read back
C17_Witness ==
    /\ WroteSetOnce /\ pc = "loaded" /\ ret = Ok
    /\ Len(written[1].after._results) = MaxRecords
    /\ written[1].after._results[1].class = "MLEResults"
    /\ written[1].after._results[MaxRecords].class = "BayesianResults"
    /\ res._results[MaxRecords].class = "BayesianResults"

\* C21: a call of set_x, set_bins or characterize_sequence that fails leaves
\* the descriptor of the Result Set as it was before the call: neither the
\* sequence name nor the sequence columns change
C21_FailedCallChangesNothing ==
    [][((SetX \/ SetBins \/ CharacterizeSequence) /\ ret'.kind = "error")
          => /\ res'._sequence_name = res._sequence_name
             /\ res'._sequence_tuple = res._sequence_tuple]_vars

(***************************************************************************)
(* Claims about reading a point estimate                                   *)
(***************************************************************************)
\* C18: reading an "MLE" block builds the point estimate from the stored
\* covariance and best-fit values without the sampling path: no samples are
\* drawn, no sample is rejected and no reliability warning is emitted
C18_LoadDrawsNothing ==
    (WasWritten("MLEResults") /\ ret = Ok) => (drawn = <<>> /\ ~warned)

(***************************************************************************)
(* Claims about the queries of a result                                    *)
(***************************************************************************)
Asked(name) == pc = "built" /\ out # None /\ out[1].query.name = name

\* C12: get_correlation_matrix raises nothing, cell (i, j) is not-a-number
\* whenever the variance of parameter i or of parameter j is zero or
\* negative, and every other cell is cov[i,j] / sqrt(cov[i,i] * cov[j,j])
C12_NonPositiveVarianceIsNaN ==
    Asked("get_correlation_matrix") =>
        LET cov == res._covariance_matrix.d IN
        /\ out[1].r.kind = "ok"
        /\ \A i \in 1..Len(cov) : \A j \in 1..Len(cov) :
              out[1].r.val.d[i][j] =
                 IF cov[i][i] <= 0 \/ cov[j][j] <= 0 THEN NaN
                 ELSE Quotient(cov[i][j], cov[i][i] * cov[j][j])

C14_VariateOfPosition ==
    Asked("get_variates") =>
        LET model  == res._optimized_model
            stored == Transpose(res._samples_transposed).d
        IN
        /\ (\A p \in 1..Len(model) : model[p].path # out[1].query.param_path)
              => out[1].r.kind = "error"
        /\ \A p \in 1..Len(model) :
              model[p].path = out[1].query.param_path =>
                 /\ out[1].r.kind = "ok"
                 /\ out[1].r.val.samples = [s \in 1..Len(stored) |-> stored[s][p]]
                 /\ out[1].r.val.value = res._values[p]
                 /\ out[1].r.val.value = args[1].model[p].value

\* the variate of the last of MaxK parameters was returned, two different
\* samples in it
C14_Witness ==
    /\ Asked("get_variates")
    /\ Len(res._optimized_model) = MaxK
    /\ out[1].query.param_path = ParNames[MaxK]
    /\ out[1].r.kind = "ok"
    /\ Len(out[1].r.val.samples) = NSamples
    /\ out[1].r.val.samples[1] # out[1].r.val.samples[2]


(***************************************************************************)
(* Claims about the model a result holds                                   *)
(***************************************************************************)
ValuesOf(model) == [i \in 1..Len(model) |-> model[i].value]

\* C15: whatever the script does to its own model or to a model the
\* property optimized_model returned, the model of the result stays what
\* it was when the result was built, and so do the best-fit values and
\* what optimized_model, get_variates and get_data_frame return
C15_SnapshotNeverChanges ==
    (pc = "built" /\ heap # <<>>) =>
        /\ heap.objects[heap.snapshot] = args[1].model
        /\ res._values = ValuesOf(args[1].model)
        /\ (out # None /\ out[1].query.name = "optimized_model") =>
              out[1].r.val = args[1].model
        /\ (out # None /\ out[1].query.name = "get_variates") =>
              out[1].r = get_variates(res, out[1].query.param_path)
        /\ (out # None /\ out[1].query.name = "get_data_frame") =>
              out[1].r = get_data_frame(res, "equal tail", 68)

\* both the script's model and the model optimized_model returned were
\* changed, and the result then answered a query
C15_Witness ==
    /\ pc = "built" /\ heap # <<>> /\ heap.got # 0
    /\ heap.objects[heap.caller] # args[1].model
    /\ heap.objects[heap.got] # args[1].model
    /\ Len(args[1].model) = MaxK
    /\ out # None /\ out[1].query.name = "get_data_frame"
    /\ out[1].r.kind = "ok"

(***************************************************************************)
(* Claims about a point estimate without covariance                        *)
(***************************************************************************)
\* the matrix has no entry
IsEmpty(a) == a.nd >= 1 /\ Len(a.d) = 0

\* the fallback: a k x k zero covariance and n_samples copies of the
\* best-fit point
IsFallback ==
    LET k == Len(args[1].model) IN
    /\ pc = "built" /\ ret = Ok
    /\ res._covariance_matrix = Zeros2(k, k)
    /\ Transpose(res._samples_transposed).d
          = [s \in 1..args[1].n_samples |-> ValuesOf(args[1].model)]

SupportedTypes == {"int16", "int32", "int64", "uint16", "uint32", "float32", "float64"}

\* the column cannot be mapped to an on-disk type: it is empty, or its first
\* element is a number of an unsupported type, an array that is empty, of
\* opaque objects, of an unsupported type or not coercible, or of no known
\* kind
Unmappable(data) ==
    \/ Len(data) = 0
    \/ /\ Len(data) > 0
       /\ LET e == data[1] IN
          \/ e.type \in {"Quantity", "scalar"} /\ e.dtype \notin SupportedTypes
          \/ /\ e.type \in {"list", "ndarray"}
             /\ \/ Len(e.items) = 0
                \/ \E i \in 1..Len(e.items) : e.items[i] \notin SupportedTypes
          \/ e.type \notin {"Quantity", "str", "scalar", "list", "ndarray"}

\* C20: when a column cannot be mapped to a supported on-disk type,
\* FITSExtension fails with the schema error that names the first such
\* column, no other error escapes and no extension is produced; otherwise
\* the extension is produced
C20_UnmappableIsSchemaError ==
    pc = "extension" =>
        LET cols == args[1].data_tuple
            bad  == {i \in 1..Len(cols) : Unmappable(cols[i].data)}
        IN
        IF bad = {} THEN ret = Ok /\ res # NoObject
        ELSE /\ ret = RaiseNaming(cols[First(bad)].name)
             /\ res = NoObject

(***************************************************************************)
(* The codec alone                                                         *)
(***************************************************************************)
CodecIdle ==
    /\ args = None /\ drawn = <<>> /\ res = NoObject /\ written = None
    /\ file = None /\ ret = Ok /\ warned = FALSE
    /\ out = None /\ heap = <<>>

CodecInit ==
    /\ pc = "text"
    /\ text \in Texts
    /\ escaped = <<>>
    /\ restored = <<>>
    /\ CodecIdle

Escape ==
    /\ pc = "text"
    /\ escaped' = _escape_yaml_for_fits(text)
    /\ pc' = "escaped"
    /\ UNCHANGED <<text, restored, args, drawn, res, written, file, ret, warned,
                   out, heap>>

Unescape ==
    /\ pc = "escaped"
    /\ restored' = _escape_back_yaml_from_fits(escaped)
    /\ pc' = "restored"
    /\ UNCHANGED <<text, escaped, args, drawn, res, written, file, ret, warned,
                   out, heap>>

CodecNext == Escape \/ Unescape

SpecCodec == CodecInit /\ [][CodecNext]_vars

\* C1: for every text x holding none of the five placeholders,
\* _escape_back_yaml_from_fits(_escape_yaml_for_fits(x)) = x
C1_RoundTrip ==
    (pc = "restored" /\ ~HasPlaceholder(text)) => restored = text

====
